---- MODULE Spec2Model ----
(***************************************************************************)
(* FileSyncManager (benas_filesync/filesyncmanager.py): one-way sync of    *)
(* the .txt files of a source directory into a backup directory, with the  *)
(* superseded backups moved to a versioning directory.                     *)
(*                                                                         *)
(* Strings (file names, timestamps) are sequences of character codes, file *)
(* contents are sequences of bytes.  The three configured paths name three *)
(* different directories; a directory is the function from the names it    *)
(* holds to its entries.                                                   *)
(***************************************************************************)
EXTENDS Integers, Sequences, FiniteSets, TLC

VARIABLES
    isdir,            \* os.path.isdir of the paths self.source, self.backup, self.versioning
    source,           \* the entries of the source directory
    backup,           \* the entries of the backup directory
    versioning,       \* the entries of the versioning directory
    now,              \* the wall clock, in seconds since midnight
    dry_run,          \* self.dry_run
    modified_within,  \* self.modified_within: <<>> is None, <<n>> is the int n
    pc,               \* position of sync(): idle, list, loop, moved, and done or failed
                      \* from its return until the user next changes the source;
                      \* main while the command line has not constructed the manager
    files,            \* the part of get_txt_files()'s list the loop has not reached yet
    log,              \* the events self.logger.info emitted in the current pass
    error,            \* the message of the exception raised in the current pass, "" when none
    pre,              \* the directories as they were when the current pass began
    shadow,           \* the same pass run with dry_run on, from the same state and clock
    budget,           \* number of sync() calls the model still follows
    history,          \* every completed supersession: file name, clock, old content,
                      \* and the versioned name its Versioning event gave
    clean,            \* every pass so far ran with dry_run off and raised nothing
    result,           \* what the last direct call of should_sync gave, until the next sync()
    cli,              \* the run of the command-line entry point: position, exit code
                      \* (-1 while running) and the error that ended it
    follows           \* the current pass began right after a pass that returned,
                      \* with no change of the source directory in between

vars == <<isdir, source, backup, versioning, now, dry_run, modified_within,
          pc, files, log, error, pre, shadow, budget, history, clean, result, cli,
          follows>>

-----------------------------------------------------------------------------
(* Bounds *)

\* the source directory holds at most this many entries
MaxFiles == 2
\* the clock runs up to this many minutes (and one second) after the start
MaxMinutes == 1
\* a long run is followed for this many sync() calls
MaxPasses == 2

-----------------------------------------------------------------------------
(* Strings *)

\* ".txt"
TXT == <<46, 116, 120, 116>>
\* "_"
UNDERSCORE == <<95>>
\* "."
DOT == TXT[1]

\* "a.txt"
A_TXT == <<97>> \o TXT
\* ".txt": a hidden file whose whole name is the suffix
DOT_TXT == TXT
\* ".txt.txt"
DOT_TXT_TXT == TXT \o TXT
\* "n.md"
N_MD == <<110, 46, 109, 100>>

\* the names an entry of the source directory can have
Names == {A_TXT, DOT_TXT, DOT_TXT_TXT, N_MD}

\* file contents: "h" and "he"; a copy cut short leaves a proper prefix
Contents == {<<104>>, <<104, 101>>}

\* the clock readings: the start, and each later minute and the second after it
Instants == {0} \cup {60 * k : k \in 1..MaxMinutes} \cup {60 * k + 1 : k \in 1..MaxMinutes}

\* str.endswith
endswith(s, suffix) ==
    /\ Len(s) >= Len(suffix)
    /\ SubSeq(s, Len(s) - Len(suffix) + 1, Len(s)) = suffix

\* str.rfind of one character, 0-based, -1 when absent
rfind(s, c) ==
    LET hits == {i \in 1..Len(s) : s[i] = c}
    IN  IF hits = {} THEN -1 ELSE (CHOOSE i \in hits : \A j \in hits : j <= i) - 1

\* os.path.splitext(p)[0] for a name without directory separators: the
\* extension starts at the last dot, unless only dots precede that dot.
splitext(p) ==
    LET dotIndex == rfind(p, DOT)
    IN  IF dotIndex > -1 /\ \E i \in 1..dotIndex : p[i] # DOT
        THEN SubSeq(p, 1, dotIndex)
        ELSE p

\* two decimal digits
digits2(n) == <<48 + (n \div 10), 48 + (n % 10)>>

\* datetime.now().strftime('%Y%m%dT%H%M%S'), on the day 2024-01-01
strftime(t) ==
    <<50, 48, 50, 52, 48, 49, 48, 49, 84>>
        \o digits2((t \div 3600) % 24) \o digits2((t \div 60) % 60) \o digits2(t % 60)

-----------------------------------------------------------------------------
(* The file system *)

Dirs == {"source", "backup", "versioning"}

File(data, mtime) == [kind |-> "file", data |-> data, mtime |-> mtime]
Directory == [kind |-> "dir", data |-> <<>>, mtime |-> 0]

\* the directory without entries
Empty == [n \in {} |-> Directory]

\* os.path.exists and os.path.isfile of the path os.path.join(dir, name)
exists(dir, name) == name \in DOMAIN dir
isfile(dir, name) == name \in DOMAIN dir /\ dir[name].kind = "file"

\* the directory dir with the entry e under name
Put(dir, name, e) == [n \in DOMAIN dir \cup {name} |-> IF n = name THEN e ELSE dir[n]]
\* the directory dir without name
Del(dir, name) == [n \in DOMAIN dir \ {name} |-> dir[n]]

\* What the environment decides about the I/O of one step: which call fails
\* (none, or the first call of that kind), and how many bytes a failing write
\* has put at its destination: -1 when the destination was never opened.
Faults == {"none", "makedirs", "listdir", "getmtime", "read", "move", "copy"}
IO == [fault : Faults, cut : -1..2]

\* a copy that creates the destination and writes nothing into it
copy2_empty(src, dst, name) == Put(dst, name, File(<<>>, src[name].mtime))

\* shutil.copy2(src/name, dst/name) without failure: content and metadata
copy2(src, dst, name) == Put(dst, name, src[name])

\* what a failing write of entry e leaves in dst under name, at time t
Torn(dst, name, e, t, io) ==
    IF io.cut < 0 \/ io.cut > Len(e.data) THEN dst
    ELSE Put(dst, name, File(SubSeq(e.data, 1, io.cut), t))

-----------------------------------------------------------------------------
(* FileSyncManager *)

\* the three log messages; versioned is "" except for Versioning
Event(kind, filename, versioned_name) ==
    [kind |-> kind, filename |-> filename, versioned_name |-> versioned_name]

\* a listing without the suffix test and without the os.path.isfile test
get_txt_files_all(dirs, src, io) ==
    IF ~dirs["source"] \/ io.fault = "listdir"
    THEN [raised |-> TRUE, value |-> {}]
    ELSE [raised |-> FALSE, value |-> DOMAIN src]

\* get_txt_files(): the .txt names of the source directory that are regular
\* files; raises when the source path is no directory or listdir fails.
get_txt_files(dirs, src, io) ==
    IF ~dirs["source"] \/ io.fault = "listdir"
    THEN [raised |-> TRUE, value |-> {}]
    ELSE [raised |-> FALSE,
          value |-> {f \in DOMAIN src : endswith(f, TXT) /\ isfile(src, f)}]

\* a digest that is the same for every content
hash_file_const(dir, name, io) ==
    IF ~isfile(dir, name) \/ io.fault = "read"
    THEN [raised |-> TRUE, value |-> <<>>]
    ELSE [raised |-> FALSE, value |-> <<"sha256", <<>>>>]

\* hash_file(filepath): the SHA-256 digest of the content, taken to be
\* injective; raises when the path is no regular file or reading it fails.
hash_file(dir, name, io) ==
    IF ~isfile(dir, name) \/ io.fault = "read"
    THEN [raised |-> TRUE, value |-> <<>>]
    ELSE [raised |-> FALSE, value |-> <<"sha256", dir[name].data>>]

\* a comparison that finds every existing backup different
should_sync_always(src, bak, name, io) ==
    [raised |-> ~isfile(src, name), value |-> TRUE]

\* a comparison that answers "differs" where the original raises
should_sync_lenient(src, bak, name, io) ==
    IF ~exists(bak, name)
    THEN [raised |-> FALSE, value |-> TRUE]
    ELSE LET hs == hash_file(src, name, io)
             hb == hash_file(bak, name, io)
         IN  [raised |-> FALSE, value |-> (hs.raised \/ hb.raised \/ hs.value # hb.value)]

\* should_sync(source_path, backup_path)
should_sync(src, bak, name, io) ==
    IF ~exists(src, name) \/ ~isfile(src, name)
    THEN [raised |-> TRUE, value |-> FALSE]
    ELSE IF ~exists(bak, name)
    THEN [raised |-> FALSE, value |-> TRUE]
    ELSE LET hs == hash_file(src, name, io)
             hb == hash_file(bak, name, io)
         IN  IF hs.raised \/ hb.raised
             THEN [raised |-> TRUE, value |-> FALSE]
             ELSE [raised |-> FALSE, value |-> hs.value # hb.value]

\* directory creation whose failure is ignored
makedirs_ignore(dirs, io) ==
    IF io.fault = "makedirs" /\ ~dirs["backup"] /\ io.cut < 1
    THEN [raised |-> FALSE, isdir |-> dirs]
    ELSE IF io.fault = "makedirs" /\ ~dirs["versioning"]
    THEN [raised |-> FALSE, isdir |-> [dirs EXCEPT !["backup"] = TRUE]]
    ELSE [raised |-> FALSE,
          isdir |-> [dirs EXCEPT !["backup"] = TRUE, !["versioning"] = TRUE]]

\* os.makedirs(path, exist_ok=True) for the backup and then the versioning
\* path; io.cut tells which of the two calls a makedirs fault hits.
makedirs(dirs, io) ==
    IF io.fault = "makedirs" /\ ~dirs["backup"] /\ io.cut < 1
    THEN [raised |-> TRUE, isdir |-> dirs]
    ELSE IF io.fault = "makedirs" /\ ~dirs["versioning"]
    THEN [raised |-> TRUE, isdir |-> [dirs EXCEPT !["backup"] = TRUE]]
    ELSE [raised |-> FALSE,
          isdir |-> [dirs EXCEPT !["backup"] = TRUE, !["versioning"] = TRUE]]

\* Python truth value of self.modified_within: None and 0 are false
truthy(mw) == mw # <<>> /\ mw[1] # 0

\* the comparison with >= for >
too_old_ge(t, mtime, mw) == (t - mtime) >= 60 * mw[1]

\* minutes_ago > self.modified_within, with minutes_ago = (now - mtime) / 60
too_old(t, mtime, mw) == (t - mtime) > 60 * mw[1]

\* a versioned name without the timestamp
versioned_name_plain(filename, t) == splitext(filename) \o TXT

\* f"{os.path.splitext(filename)[0]}_{timestamp}.txt"
versioned_name(filename, t) == splitext(filename) \o UNDERSCORE \o strftime(t) \o TXT

\* a move that removes the old backup and stores it nowhere
move_drop(bak, ver, filename, vname, t, io) ==
    [raised |-> FALSE, backup |-> Del(bak, filename), versioning |-> ver]

\* a move that leaves a file already at the versioned path as it is
move_keep_first(bak, ver, filename, vname, t, io) ==
    IF io.fault = "move"
    THEN [raised |-> TRUE, backup |-> bak,
          versioning |-> Torn(ver, vname, bak[filename], t, io)]
    ELSE [raised |-> FALSE, backup |-> Del(bak, filename),
          versioning |-> IF vname \in DOMAIN ver THEN ver
                         ELSE Put(ver, vname, bak[filename])]

\* a move that has removed the backup by the time it fails
move_unlink_first(bak, ver, filename, vname, t, io) ==
    IF io.fault = "move"
    THEN [raised |-> TRUE, backup |-> Del(bak, filename),
          versioning |-> Torn(ver, vname, bak[filename], t, io)]
    ELSE [raised |-> FALSE, backup |-> Del(bak, filename),
          versioning |-> Put(ver, vname, bak[filename])]

\* shutil.move(backup_path, versioned_path): a rename, which replaces a file
\* already at the versioned path; a failing move leaves the backup in place.
move(bak, ver, filename, vname, t, io) ==
    IF io.fault = "move"
    THEN [raised |-> TRUE, backup |-> bak,
          versioning |-> Torn(ver, vname, bak[filename], t, io)]
    ELSE [raised |-> FALSE, backup |-> Del(bak, filename),
          versioning |-> Put(ver, vname, bak[filename])]

\* a copy that reports success after the first byte
copy_truncated(src, bak, filename, t, io) ==
    IF io.fault = "copy"
    THEN [raised |-> TRUE, backup |-> Torn(bak, filename, src[filename], t, io)]
    ELSE [raised |-> FALSE,
          backup |-> Put(bak, filename,
                         File(SubSeq(src[filename].data, 1, 1), src[filename].mtime))]

\* the copy of the source file to the backup path, failing or not
copy(src, bak, filename, t, io) ==
    IF io.fault = "copy"
    THEN [raised |-> TRUE, backup |-> Torn(bak, filename, src[filename], t, io)]
    ELSE [raised |-> FALSE, backup |-> copy2(src, bak, filename)]

\* what one iteration leaves: the two directories, the events it logged, and
\* where sync() goes next: "continue" (iteration over), "moved" (old backup
\* moved, copy of the new version pending) or the message of the
\* RuntimeError it raises
Outcome(bak, ver, events, next) ==
    [backup |-> bak, versioning |-> ver, events |-> events, next |-> next]

\* sync(), lines 251-259: TRUE when the recency filter skips the file
filtered(src, filename, t, mw) == truthy(mw) /\ too_old(t, src[filename].mtime, mw)

\* the log call put under "if not self.dry_run"
copy_new_quiet(src, bak, ver, filename, t, dry, io) ==
    LET c == copy(src, bak, filename, t, io)
    IN  IF dry THEN Outcome(bak, ver, <<>>, "continue")
        ELSE Outcome(c.backup, ver, <<Event("Copying new file", filename, <<>>)>>,
                     IF c.raised THEN "Error copying file" ELSE "continue")

\* sync(), lines 262-270: no backup yet
copy_new(src, bak, ver, filename, t, dry, io) ==
    LET ev == <<Event("Copying new file", filename, <<>>)>>
        c == copy(src, bak, filename, t, io)
    IN  IF dry THEN Outcome(bak, ver, ev, "continue")
        ELSE Outcome(c.backup, ver, ev,
                     IF c.raised THEN "Error copying file" ELSE "continue")

\* sync(), lines 274-282: the backup differs; name the version, log, move
version_old(bak, ver, filename, t, dry, io) ==
    LET vname == versioned_name(filename, t)
        ev == <<Event("Versioning", filename, vname)>>
        m == move(bak, ver, filename, vname, t, io)
    IN  IF dry THEN Outcome(bak, ver, ev, "continue")
        ELSE Outcome(m.backup, m.versioning, ev,
                     IF m.raised THEN "Error during versioning" ELSE "moved")

\* the branch of the identical backup without its log call
skip_unchanged_silent(bak, ver, filename) ==
    Outcome(bak, ver, <<>>, "continue")

\* sync(), lines 286-287: the backup is identical
skip_unchanged(bak, ver, filename) ==
    Outcome(bak, ver, <<Event("Skipped (unchanged)", filename, <<>>)>>, "continue")

\* One iteration of the loop of sync() for filename at time t, up to and
\* including the move of the old backup.
LoopBody(src, bak, ver, filename, t, dry, mw, io) ==
    IF truthy(mw) /\ (io.fault = "getmtime" \/ ~exists(src, filename))
    THEN Outcome(bak, ver, <<>>, "Error getting modification time")
    ELSE IF filtered(src, filename, t, mw)
    THEN Outcome(bak, ver, <<>>, "continue")
    ELSE IF ~exists(bak, filename)
    THEN copy_new(src, bak, ver, filename, t, dry, io)
    ELSE LET ss == should_sync(src, bak, filename, io)
         IN  IF ss.raised THEN Outcome(bak, ver, <<>>, "Error comparing files")
             ELSE IF ss.value THEN version_old(bak, ver, filename, t, dry, io)
             ELSE skip_unchanged(bak, ver, filename)

\* an exception swallowed inside the loop: the pass carries on
propagate_swallow(next) == IF next = "moved" THEN "moved" ELSE "loop"

\* sync(), lines 289-290: an exception of the try block ends the pass
propagate(next) ==
    IF next = "continue" THEN "loop" ELSE IF next = "moved" THEN "moved" ELSE "failed"

\* the exception an outcome carries, "" when none
raised(next) == IF next \in {"continue", "moved"} THEN "" ELSE next

-----------------------------------------------------------------------------
(* Initial states *)

\* the names sync() can pick up
TxtNames == {f \in Names : endswith(f, TXT)}

\* the values of modified_within: None, 0 and 1 minute
Windows == {<<>>, <<0>>, <<1>>}

\* the longest and the shortest content
Long == CHOOSE c \in Contents : \A d \in Contents : Len(d) <= Len(c)
Short == CHOOSE c \in Contents : \A d \in Contents : Len(c) <= Len(d)

\* the entries a name can have in the source directory at the start: each
\* name is a file of one content (the backup's content is free, and the
\* user rewrites sources later), a.txt can also be a directory
SourceEntries(f) ==
    IF f = A_TXT THEN {File(Long, 0), Directory}
    ELSE IF f = DOT_TXT_TXT THEN {File(Short, 0)}
    ELSE {File(Long, 0)}

\* the entries a name can have in the backup directory at the start
BackupEntries(f) ==
    {File(c, 0) : c \in Contents} \cup (IF f = A_TXT THEN {Directory} ELSE {})

\* the directories over at most max of the names, each entry taken from entries[name]
DirStates(names, max, entries) ==
    UNION {{d \in [S -> UNION {entries[f] : f \in S}] : \A f \in S : d[f] \in entries[f]} :
           S \in {T \in SUBSET names : Cardinality(T) <= max}}

\* no direct call of should_sync since the last sync()
NoCall == [filename |-> <<>>, fault |-> "none", raised |-> FALSE, value |-> FALSE]

Snapshot == [isdir |-> isdir, source |-> source, backup |-> backup,
             versioning |-> versioning]

\* Any state of the three directories, followed for one pass.  Entries of
\* the backup directory that no source file matches are never read, and a
\* missing versioning directory matters to makedirs alone, so the backup has
\* entries for source names only, and only next to a versioning directory.
ArbitraryInit ==
    /\ isdir \in [Dirs -> BOOLEAN]
    /\ source \in IF isdir["source"] THEN DirStates(Names, MaxFiles, [f \in Names |-> SourceEntries(f)]) ELSE {Empty}
    /\ backup \in IF isdir["backup"] /\ isdir["versioning"]
                  THEN DirStates(DOMAIN source \cap TxtNames, MaxFiles, [f \in Names |-> BackupEntries(f)])
                  ELSE {Empty}
    /\ dry_run \in BOOLEAN
    /\ modified_within \in Windows
    /\ budget = 1

\* One source file and its backup, followed for MaxPasses passes of a
\* manager that filters nothing and previews nothing, with the user's
\* changes in between.
LongRunInit ==
    /\ isdir = [d \in Dirs |-> TRUE]
    /\ source = Put(Empty, A_TXT, File(Long, 0))
    /\ backup \in DirStates({A_TXT}, MaxFiles, [f \in Names |-> {File(c, 0) : c \in Contents}])
    /\ dry_run = FALSE
    /\ modified_within = <<>>
    /\ budget = MaxPasses

\* nothing has run yet
Fresh ==
    /\ versioning = Empty
    /\ now = 0
    /\ files = <<>>
    /\ log = <<>>
    /\ pre = Snapshot
    /\ shadow = [isdir |-> isdir, backup |-> backup, versioning |-> versioning,
                 log |-> <<>>, pc |-> "idle"]
    /\ error = ""
    /\ history = {}
    /\ clean = TRUE
    /\ result = NoCall
    /\ follows = FALSE

\* a FileSyncManager constructed and used through its methods
Init ==
    /\ ArbitraryInit \/ LongRunInit
    /\ Fresh
    /\ pc = "idle"
    /\ cli = [pc |-> "api", code |-> -1, error |-> ""]

-----------------------------------------------------------------------------
(* sync() *)

Idle == pc \in {"idle", "done", "failed"}

\* the orders os.listdir can give the names in
Orders(S) == {o \in [1..Cardinality(S) -> S] : \A i, j \in DOMAIN o : o[i] = o[j] => i = j}

\* sync(), lines 240-243: the two os.makedirs calls
SyncBegin ==
    /\ Idle
    /\ budget > 0
    /\ \E io \in IO :
        /\ io.fault \in {"none", "makedirs"}
        /\ LET m == makedirs(isdir, io)
               to == IF m.raised THEN "failed" ELSE "list"
           IN  /\ isdir' = m.isdir
               /\ pc' = to
               /\ error' = IF m.raised THEN "makedirs" ELSE ""
               /\ clean' = (clean /\ ~dry_run /\ ~m.raised)
               /\ shadow' = [isdir |-> m.isdir, backup |-> backup,
                             versioning |-> versioning, log |-> <<>>, pc |-> to]
    /\ pre' = Snapshot
    /\ log' = <<>>
    /\ files' = <<>>
    /\ budget' = budget - 1
    /\ result' = NoCall
    /\ follows' = (pc = "done")
    /\ UNCHANGED <<source, backup, versioning, now, dry_run, modified_within, history, cli>>

\* sync(), line 245: self.get_txt_files(), in the order the listing gives
GetTxtFiles ==
    /\ pc = "list"
    /\ \E io \in IO :
        /\ io.fault \in {"none", "listdir"}
        /\ LET r == get_txt_files(isdir, source, io)
           IN  IF r.raised
               THEN /\ pc' = "failed"
                    /\ error' = "Error reading .txt files"
                    /\ clean' = FALSE
                    /\ shadow' = [shadow EXCEPT !.pc = "failed"]
                    /\ files' = <<>>
               ELSE /\ pc' = "loop"
                    /\ shadow' = [shadow EXCEPT !.pc = "loop"]
                    /\ \E o \in Orders(r.value) : files' = o
                    /\ UNCHANGED <<error, clean>>
    /\ UNCHANGED <<isdir, source, backup, versioning, now, dry_run, modified_within,
                   log, pre, budget, history, result, cli, follows>>

\* the pass with dry_run on, taking the same iteration under the same I/O
ShadowStep(filename, io) ==
    IF shadow.pc # "loop" THEN shadow
    ELSE LET d == LoopBody(source, shadow.backup, shadow.versioning, filename, now,
                           TRUE, modified_within, io)
         IN  [shadow EXCEPT !.backup = d.backup, !.versioning = d.versioning,
                            !.log = shadow.log \o d.events,
                            !.pc = IF raised(d.next) # "" THEN "failed" ELSE "loop"]

\* sync(), lines 245-282 and 286-287: one iteration, up to the move
SyncFile ==
    /\ pc = "loop"
    /\ files # <<>>
    /\ \E io \in IO :
        /\ io.fault \in {"none", "getmtime", "read", "move", "copy"}
        /\ LET r == LoopBody(source, backup, versioning, Head(files), now,
                             dry_run, modified_within, io)
           IN  /\ backup' = r.backup
               /\ versioning' = r.versioning
               /\ log' = log \o r.events
               /\ pc' = propagate(r.next)
               /\ error' = raised(r.next)
               /\ clean' = (clean /\ raised(r.next) = "")
               /\ files' = IF r.next = "continue" THEN Tail(files) ELSE files
               /\ shadow' = ShadowStep(Head(files), io)
    /\ UNCHANGED <<isdir, source, now, dry_run, modified_within, pre, budget, history, result, cli, follows>>

\* sync(), line 283: the copy of the new version after the move
VersionCopy ==
    /\ pc = "moved"
    /\ \E io \in IO :
        /\ io.fault \in {"none", "copy"}
        /\ LET c == copy(source, backup, Head(files), now, io)
               next == IF c.raised THEN "Error during versioning" ELSE "continue"
           IN  /\ backup' = c.backup
               /\ pc' = propagate(next)
               /\ error' = raised(next)
               /\ clean' = (clean /\ ~c.raised)
               /\ files' = IF c.raised THEN files ELSE Tail(files)
               /\ history' = IF c.raised THEN history
                             ELSE history \cup {[filename |-> Head(files),
                                                 time |-> now,
                                                 data |-> pre.backup[Head(files)].data,
                                                 name |-> log[Len(log)].versioned_name]}
    /\ UNCHANGED <<isdir, source, versioning, now, dry_run, modified_within, log,
                   pre, shadow, budget, result, cli, follows>>

\* a return that first removes the backups without source file (a mirror)
SyncReturn_prune ==
    /\ pc = "loop"
    /\ files = <<>>
    /\ pc' = "done"
    /\ backup' = [f \in DOMAIN backup \cap DOMAIN source |-> backup[f]]
    /\ shadow' = [shadow EXCEPT !.pc = IF shadow.pc = "loop" THEN "done" ELSE shadow.pc]
    /\ UNCHANGED <<isdir, source, versioning, now, dry_run, modified_within,
                   files, log, error, pre, budget, history, clean, result, cli, follows>>

\* sync() returns: the loop is over
SyncReturn ==
    /\ pc = "loop"
    /\ files = <<>>
    /\ pc' = "done"
    /\ shadow' = [shadow EXCEPT !.pc = IF shadow.pc = "loop" THEN "done" ELSE shadow.pc]
    /\ UNCHANGED <<isdir, source, backup, versioning, now, dry_run, modified_within,
                   files, log, error, pre, budget, history, clean, result, cli, follows>>

-----------------------------------------------------------------------------
(* The environment *)

\* the clock advances to its next reading: before a pass, or inside its loop
Tick ==
    /\ pc = "loop" \/ (Idle /\ budget > 0)
    /\ \E t \in Instants :
        /\ t > now
        /\ \A u \in Instants : u > now => t <= u
        /\ now' = t
    /\ UNCHANGED <<isdir, source, backup, versioning, dry_run, modified_within,
                   pc, files, log, error, pre, shadow, budget, history, clean, result, cli, follows>>

\* between two passes the user writes a source file
WriteSource ==
    /\ pc \in {"done", "failed"}
    /\ budget > 0
    /\ isdir["source"]
    /\ \E f \in DOMAIN source, c \in Contents :
        /\ isfile(source, f)
        /\ source[f].data # c
        /\ source' = Put(source, f, File(c, now))
    /\ pc' = "idle"
    /\ UNCHANGED <<isdir, backup, versioning, now, dry_run, modified_within,
                   files, log, error, pre, shadow, budget, history, clean, result, cli, follows>>

\* between two passes the user removes a source file
RemoveSource ==
    /\ pc \in {"done", "failed"}
    /\ budget > 0
    /\ \E f \in DOMAIN source :
        /\ isfile(source, f)
        /\ source' = Del(source, f)
    /\ pc' = "idle"
    /\ UNCHANGED <<isdir, backup, versioning, now, dry_run, modified_within,
                   files, log, error, pre, shadow, budget, history, clean, result, cli, follows>>

\* between passes the caller asks should_sync about the paths of a name in
\* the source and the backup directory
ShouldSync ==
    /\ pc = "idle"
    /\ \E f \in Names, io \in IO :
        /\ io.fault \in {"none", "read"}
        /\ io.cut = -1
        /\ LET r == should_sync(source, backup, f, io)
           IN  result' = [filename |-> f, fault |-> io.fault,
                          raised |-> r.raised, value |-> r.value]
    /\ UNCHANGED <<isdir, source, backup, versioning, now, dry_run, modified_within,
                   pc, files, log, error, pre, shadow, budget, history, clean, cli, follows>>

Next ==
    \/ SyncBegin
    \/ GetTxtFiles
    \/ SyncFile
    \/ VersionCopy
    \/ SyncReturn
    \/ Tick
    \/ WriteSource
    \/ RemoveSource
    \/ ShouldSync

Spec == Init /\ [][Next]_vars

\* One pass of sync() from any state of the directories, in which every call
\* returns or raises: the interpreter runs the statements of sync() one
\* after the other, so a step that can be taken is taken.
PassInit ==
    /\ ArbitraryInit
    /\ Fresh
    /\ pc = "idle"
    /\ cli = [pc |-> "api", code |-> -1, error |-> ""]

PassNext ==
    \/ SyncBegin
    \/ GetTxtFiles
    \/ SyncFile
    \/ VersionCopy
    \/ SyncReturn
    \/ Tick

PassSpec ==
    /\ PassInit
    /\ [][PassNext]_vars
    /\ WF_vars(GetTxtFiles)
    /\ WF_vars(SyncFile)
    /\ WF_vars(VersionCopy)
    /\ WF_vars(SyncReturn)

-----------------------------------------------------------------------------
(* The command-line entry point: main() of filesync/cli.py and of           *)
(* benas_filesync/main.py                                                    *)

\* the process has ended with this exit status
Exited(code, err) == [pc |-> "exited", code |-> code, error |-> err]

\* the command line is about to be parsed; --dry-run and --modified-within
\* are the values the manager will get
CliInit ==
    /\ ArbitraryInit
    /\ Fresh
    /\ pc = "main"
    /\ cli = [pc |-> "start", code |-> -1, error |-> ""]

\* args = parse_args(): argparse ends the process with status 2 when a
\* required option is missing or --modified-within is no integer
CliParseArgs ==
    /\ cli.pc = "start"
    /\ \E ok \in BOOLEAN :
        cli' = IF ok THEN [cli EXCEPT !.pc = "parsed"] ELSE Exited(2, "argparse")
    /\ UNCHANGED <<isdir, source, backup, versioning, now, dry_run, modified_within,
                   pc, files, log, error, pre, shadow, budget, history, clean, result, follows>>

\* setup_logging(...): outside the try block, so an exception of the file
\* handler is uncaught and ends the process with status 1
CliSetupLogging ==
    /\ cli.pc = "parsed"
    /\ \E ok \in BOOLEAN :
        cli' = IF ok THEN [cli EXCEPT !.pc = "logging"] ELSE Exited(1, "logging")
    /\ UNCHANGED <<isdir, source, backup, versioning, now, dry_run, modified_within,
                   pc, files, log, error, pre, shadow, budget, history, clean, result, follows>>

\* a validation that looks at the source path only
CliValidate_source_only ==
    /\ cli.pc = "logging"
    /\ IF isdir["source"]
       THEN cli' = [cli EXCEPT !.pc = "sync"] /\ pc' = "idle"
       ELSE cli' = Exited(1, "not valid directories") /\ pc' = pc
    /\ UNCHANGED <<isdir, source, backup, versioning, now, dry_run, modified_within,
                   files, log, error, pre, shadow, budget, history, clean, result, follows>>

\* the validation of the three paths; when it passes the manager is
\* constructed and syncer.sync() is the next call
CliValidate ==
    /\ cli.pc = "logging"
    /\ IF \A d \in Dirs : isdir[d]
       THEN cli' = [cli EXCEPT !.pc = "sync"] /\ pc' = "idle"
       ELSE cli' = Exited(1, "not valid directories") /\ pc' = pc
    /\ UNCHANGED <<isdir, source, backup, versioning, now, dry_run, modified_within,
                   files, log, error, pre, shadow, budget, history, clean, result, follows>>

\* syncer.sync() has returned (the process ends with status 0) or raised
\* (except Exception: exit(1))
CliExit ==
    /\ cli.pc = "sync"
    /\ budget = 0
    /\ pc \in {"done", "failed"}
    /\ cli' = IF pc = "failed" THEN Exited(1, error) ELSE Exited(0, "")
    /\ UNCHANGED <<isdir, source, backup, versioning, now, dry_run, modified_within,
                   pc, files, log, error, pre, shadow, budget, history, clean, result, follows>>

CliNext ==
    \/ CliParseArgs
    \/ CliSetupLogging
    \/ CliValidate
    \/ SyncBegin
    \/ GetTxtFiles
    \/ SyncFile
    \/ VersionCopy
    \/ SyncReturn
    \/ Tick
    \/ CliExit

CliSpec == CliInit /\ [][CliNext]_vars

-----------------------------------------------------------------------------
(* Vocabulary of the claims *)

\* the eligible files of a source directory: regular files named *.txt
Eligible(src) == {f \in DOMAIN src : endswith(f, TXT) /\ src[f].kind = "file"}

\* dir holds a regular file under name with the content data
Holds(dir, name, data) ==
    name \in DOMAIN dir /\ dir[name].kind = "file" /\ dir[name].data = data

\* the source file f was modified more than n minutes before the time t
Older(f, n, t) == t - source[f].mtime > 60 * n

\* no recency window is in effect: modified_within is None or 0
NoWindow == modified_within \in {<<>>, <<0>>}

\* sync() returned without raising, with dry_run off
Synced == pc = "done" /\ ~dry_run

-----------------------------------------------------------------------------
(* C1 *)

\* C1, as stated: after a pass that returns without raising, dry_run off,
\* every eligible source file has a backup entry with the same content, for
\* every setting of modified_within.
C1_AllEligibleBackedUp ==
    Synced => \A f \in Eligible(source) : Holds(backup, f, source[f].data)

\* C1, amended: the same for the eligible files the recency filter lets
\* through: all of them when modified_within is None or 0, else those
\* modified at most modified_within minutes before the end of the pass.
C1_RecentEligibleBackedUp ==
    Synced =>
        \A f \in Eligible(source) :
            (NoWindow \/ ~Older(f, modified_within[1], now))
                => Holds(backup, f, source[f].data)

\* C1, witness: a pass with a window of one minute has copied a new file
\* and replaced a differing backup.
C1_Witness ==
    /\ Synced
    /\ modified_within = <<1>>
    /\ \E f, g \in Eligible(source) :
        /\ f \notin DOMAIN pre.backup
        /\ g \in DOMAIN pre.backup /\ pre.backup[g].data # source[g].data
        /\ Holds(backup, f, source[f].data)
        /\ Holds(backup, g, source[g].data)

-----------------------------------------------------------------------------
(* C2 *)

\* v is <stem>_<timestamp>.txt for the stem of f and some timestamp
IsVersionOf(v, f) ==
    \E t \in Instants : v = splitext(f) \o UNDERSCORE \o strftime(t) \o TXT

\* when the pass began, f had a regular file as backup whose content
\* differs from the source's
Differing(f) ==
    /\ f \in DOMAIN pre.backup
    /\ pre.backup[f].kind = "file"
    /\ pre.backup[f].data # source[f].data

\* C2, as stated: after a successful pass with dry_run off, every eligible
\* file whose backup differed has the source content at its backup path and
\* its previous backup content in exactly one file of the versioning
\* directory, named <stem>_<timestamp>.txt.
C2_OldBackupInExactlyOneVersion ==
    Synced =>
        \A f \in Eligible(source) :
            Differing(f) =>
                /\ Holds(backup, f, source[f].data)
                /\ Cardinality({v \in DOMAIN versioning :
                                    versioning[v].data = pre.backup[f].data}) = 1
                /\ \A v \in DOMAIN versioning :
                        versioning[v].data = pre.backup[f].data => IsVersionOf(v, f)

\* the step of f named the version vname, and no later step of the pass
\* moved the backup of another file to the same name
VersionedAs(f, vname) ==
    \E i \in DOMAIN log :
        /\ log[i] = Event("Versioning", f, vname)
        /\ IsVersionOf(vname, f)
        /\ \/ Holds(versioning, vname, pre.backup[f].data)
           \/ \E j \in DOMAIN log :
                  /\ j > i
                  /\ log[j].kind = "Versioning"
                  /\ log[j].versioned_name = vname
                  /\ log[j].filename # f

\* C2, amended: for the eligible files the recency filter lets through, the
\* backup path holds the source content and the previous backup content was
\* moved to the versioning file <stem>_<timestamp>.txt named in the file's
\* Versioning event, which holds it at the end of the pass unless a later
\* step of the pass moved another file's backup to the same name; other
\* versioning files may hold the same content.
C2_OldBackupMovedToVersion ==
    Synced =>
        \A f \in Eligible(source) :
            (Differing(f) /\ (NoWindow \/ ~Older(f, modified_within[1], now))) =>
                /\ Holds(backup, f, source[f].data)
                /\ \E vname \in DOMAIN versioning : VersionedAs(f, vname)

\* C2, witness: a pass replaced a differing backup and its old content is in
\* the versioning directory under the versioned name.
C2_Witness ==
    /\ Synced
    /\ \E f \in Eligible(source) :
        /\ Differing(f)
        /\ Holds(backup, f, source[f].data)
        /\ \E v \in DOMAIN versioning :
            IsVersionOf(v, f) /\ Holds(versioning, v, pre.backup[f].data)

-----------------------------------------------------------------------------
(* C3 *)

\* C3, as stated: with dry_run on, from the start of a pass on, the three
\* directories (existence, entries, contents) are as they were when it began.
C3_DryRunChangesNothing == (dry_run /\ pc # "idle") => Snapshot = pre

-----------------------------------------------------------------------------
(* C4 *)

\* C4: when the pass with dry_run off and the pass with dry_run on, started
\* from the same directories with the same clock and modified_within, both
\* return, their logs are the same sequence of events.
C4_SameNarrative == (Synced /\ shadow.pc = "done") => log = shadow.log

\* C4, witness: both passes returned, the log has two events of different
\* kinds, and the pass with dry_run off has changed both directories.
C4_Witness ==
    /\ Synced
    /\ shadow.pc = "done"
    /\ Len(log) = 2
    /\ log[1].kind # log[2].kind
    /\ backup # shadow.backup
    /\ versioning # shadow.versioning

-----------------------------------------------------------------------------
(* C5 *)

\* the step of the loop for the first of files is being taken
Step == pc = "loop" /\ files # <<>> /\ (files' # files \/ pc' # pc)

\* C5, as stated: for every N >= 0 given as modified_within, the iteration
\* of a file modified more than N minutes ago copies nothing, moves nothing
\* and logs nothing.
C5_OlderFilesUntouched ==
    [][(/\ Step
        /\ modified_within # <<>>
        /\ modified_within[1] >= 0
        /\ Older(Head(files), modified_within[1], now))
            => (backup' = backup /\ versioning' = versioning /\ log' = log)]_vars

-----------------------------------------------------------------------------
(* C6 *)

\* the event e of an earlier file is in effect (nothing was rolled back)
InPlace(e) ==
    \/ dry_run
    \/ e.kind = "Skipped (unchanged)"
    \/ /\ e.kind = "Copying new file"
       /\ Holds(backup, e.filename, source[e.filename].data)
    \/ /\ e.kind = "Versioning"
       /\ Holds(backup, e.filename, source[e.filename].data)
       /\ e.versioned_name \in DOMAIN versioning

\* the backup entry of g is what it was when the pass began
BackupUntouched(g) ==
    /\ g \in DOMAIN backup <=> g \in DOMAIN pre.backup
    /\ g \in DOMAIN backup => backup[g] = pre.backup[g]

\* C6: when the iteration of a file has raised, sync() has failed, the files
\* after it in the listing have no log event and their backups are as they
\* were, and what the events of the files before it did is still in place.
C6_FailureAborts ==
    (error # "" /\ files # <<>> /\ pc # "idle") =>
        /\ pc = "failed"
        /\ \A i \in 2..Len(files) :
            /\ \A j \in DOMAIN log : log[j].filename # files[i]
            /\ BackupUntouched(files[i])
        /\ \A j \in DOMAIN log : log[j].filename # Head(files) => InPlace(log[j])

\* C6, witness: the pass failed at the first of two files, with dry_run off,
\* and the file after it has a backup that differs from the source.
C6_Witness ==
    /\ pc = "failed"
    /\ ~dry_run
    /\ error # ""
    /\ Len(files) = 2
    /\ files[2] \in DOMAIN backup
    /\ backup[files[2]].kind = "file"
    /\ backup[files[2]].data # source[files[2]].data

-----------------------------------------------------------------------------
(* C7 *)

\* the recency filter skips f now
WindowSkips(f) == ~NoWindow /\ Older(f, modified_within[1], now)

\* the event "Skipped (unchanged): f"
Skipped(f) == Event("Skipped (unchanged)", f, <<>>)

\* C7, as stated: the iteration of a file whose backup is identical changes
\* neither directory and logs exactly "Skipped (unchanged): <name>".
C7_IdenticalSkippedAndLogged ==
    [][(/\ Step
        /\ Holds(backup, Head(files), source[Head(files)].data)
        /\ pc' # "failed")
            => /\ backup' = backup
               /\ versioning' = versioning
               /\ log' = Append(log, Skipped(Head(files)))]_vars

\* C7, amended: the iteration of a file whose backup is identical changes
\* neither directory; it logs exactly "Skipped (unchanged): <name>" when
\* the recency filter lets the file through and nothing is raised, and
\* nothing otherwise.
C7_IdenticalUntouched ==
    [][(/\ Step
        /\ Holds(backup, Head(files), source[Head(files)].data))
            => /\ backup' = backup
               /\ versioning' = versioning
               /\ log' = IF pc' = "failed" \/ WindowSkips(Head(files))
                         THEN log
                         ELSE Append(log, Skipped(Head(files)))]_vars

\* C7, witness: under a window of one minute the last iteration logged the
\* skip of a file whose backup is identical.
C7_Witness ==
    /\ pc = "loop"
    /\ modified_within = <<1>>
    /\ log # <<>>
    /\ log[Len(log)].kind = "Skipped (unchanged)"
    /\ Holds(backup, log[Len(log)].filename, source[log[Len(log)].filename].data)
    /\ backup = pre.backup
    /\ versioning = pre.versioning

-----------------------------------------------------------------------------
(* C8 *)

\* the backup directory differs from bak at most under the name f
OnlyAt(f, bak1, bak2) ==
    \A g \in (DOMAIN bak1 \cup DOMAIN bak2) \ {f} :
        g \in DOMAIN bak1 /\ g \in DOMAIN bak2 /\ bak1[g] = bak2[g]

\* what C8 says of the iteration of a file without backup
CopiedNew(f) ==
    /\ Holds(backup', f, source[f].data)
    /\ OnlyAt(f, backup, backup')
    /\ log' = Append(log, Event("Copying new file", f, <<>>))
    /\ versioning' = versioning

\* C8, as stated: with dry_run off, the iteration of a file without backup
\* entry creates the entry with the source's content, logs "Copying new
\* file: <name>" and adds nothing to the versioning directory.
C8_NewFileCopied ==
    [][(/\ Step
        /\ ~dry_run
        /\ Head(files) \notin DOMAIN backup
        /\ pc' # "failed")
            => CopiedNew(Head(files))]_vars

\* C8, amended: the same for the files the recency filter lets through.
C8_RecentNewFileCopied ==
    [][(/\ Step
        /\ ~dry_run
        /\ Head(files) \notin DOMAIN backup
        /\ ~WindowSkips(Head(files))
        /\ pc' # "failed")
            => CopiedNew(Head(files))]_vars

\* C8, witness: under a window of one minute, dry_run off, the last
\* iteration copied a file that had no backup.
C8_Witness ==
    /\ pc = "loop"
    /\ ~dry_run
    /\ modified_within = <<1>>
    /\ log # <<>>
    /\ log[Len(log)].kind = "Copying new file"
    /\ log[Len(log)].filename \notin DOMAIN pre.backup
    /\ Holds(backup, log[Len(log)].filename, source[log[Len(log)].filename].data)

-----------------------------------------------------------------------------
(* C9 *)

\* the step is one of sync(), not a change the user makes between passes
SyncStep == ~(pc \in {"done", "failed"} /\ pc' = "idle")

\* C9: no step of sync() creates, removes or changes an entry of the source
\* directory, and a backup entry leaves the backup directory only in the
\* move of version-then-replace, which puts it under its versioned name.
C9_SourceAndBackupKept ==
    [][SyncStep =>
        /\ source' = source
        /\ \A f \in DOMAIN backup \ DOMAIN backup' :
            /\ pc' = "moved"
            /\ \E v \in DOMAIN versioning' :
                IsVersionOf(v, f) /\ versioning'[v] = backup[f]]_vars

\* C9, witness: the move has taken the old backup of the current file out
\* of the backup directory, and the source directory is as it was.
C9_Witness ==
    /\ pc = "moved"
    /\ Head(files) \in DOMAIN pre.backup
    /\ Head(files) \notin DOMAIN backup
    /\ source = pre.source

-----------------------------------------------------------------------------
(* C10 *)

\* <stem>_<timestamp>.txt for the file f superseded at time t
VersionName(f, t) == splitext(f) \o UNDERSCORE \o strftime(t) \o TXT

\* no file was superseded twice within one clock second
DistinctSeconds ==
    \A g, h \in history : (g.filename = h.filename /\ g.time = h.time) => g = h

\* C10, as stated: after successful passes with dry_run off in which no file
\* was superseded twice within one second, every superseded backup content
\* is in the versioning directory under <stem>_<timestamp>.txt.
C10_SupersededKept ==
    (clean /\ pc = "done" /\ DistinctSeconds) =>
        \A h \in history :
            Holds(versioning, VersionName(h.filename, h.time), h.data)

-----------------------------------------------------------------------------
(* C11 *)

\* C11: no step of a sync() pass removes or changes a backup entry whose
\* name is no longer in the source directory: a file removed from the source
\* between two passes keeps its backup, name and content, in every later pass.
C11_RemovedSourceKeepsBackup ==
    [][SyncStep =>
        \A f \in DOMAIN backup \ DOMAIN source :
            f \in DOMAIN backup' /\ backup'[f] = backup[f]]_vars

\* C11, witness: a pass with dry_run off has returned after the user removed
\* a source file, and the backup of that file is what it was before the pass.
C11_Witness ==
    /\ Synced
    /\ pre.source = source
    /\ \E f \in DOMAIN backup \ DOMAIN source :
        /\ backup[f].kind = "file"
        /\ pre.backup[f] = backup[f]

-----------------------------------------------------------------------------
(* C12 *)

\* the names of the sequence q
Range(q) == {q[i] : i \in DOMAIN q}

\* C12: an entry of the source directory that is no regular file named
\* *.txt (another suffix, or a directory named *.txt) is never in the list
\* the loop works on, has no log event, leaves the backup entry of its name
\* as it was when the pass began, and has no version in the versioning
\* directory.
C12_OnlyTxtRegularFiles ==
    \A f \in DOMAIN source \ Eligible(source) :
        /\ f \notin Range(files)
        /\ \A i \in DOMAIN log : log[i].filename # f
        /\ BackupUntouched(f)
        /\ \A v \in DOMAIN versioning : ~IsVersionOf(v, f)

\* C12, witness: a pass with dry_run off has returned and logged the step of
\* an eligible file, while the source holds a directory named *.txt whose
\* name has a regular file in the backup directory.
C12_Witness ==
    /\ Synced
    /\ log # <<>>
    /\ \E f \in DOMAIN source \ Eligible(source) :
        /\ endswith(f, TXT)
        /\ source[f].kind = "dir"
        /\ f \in DOMAIN backup
        /\ backup[f].kind = "file"

-----------------------------------------------------------------------------
(* C13 *)

\* should_sync was called for the source and backup paths of result.filename
Called == result.filename # <<>>

\* the call returned the boolean b
Returned(b) == ~result.raised /\ result.value = b

\* C13: for a source path that is a regular file, should_sync returns true
\* when the backup path does not exist; when the backup path is a regular
\* file and both files can be read, it returns true exactly when the two
\* contents differ and false exactly when they are equal.
C13_ShouldSyncContract ==
    (Called /\ isfile(source, result.filename)) =>
        LET f == result.filename
        IN  /\ f \notin DOMAIN backup => Returned(TRUE)
            /\ (isfile(backup, f) /\ result.fault = "none")
                    => Returned(source[f].data # backup[f].data)

\* C13, witness: should_sync returned false for a source file and a backup
\* file with the same content (of more than one byte).
C13_Witness ==
    /\ Called
    /\ isfile(source, result.filename)
    /\ isfile(backup, result.filename)
    /\ Len(source[result.filename].data) > 1
    /\ source[result.filename].data = backup[result.filename].data
    /\ Returned(FALSE)

-----------------------------------------------------------------------------
(* C14 *)

\* C14, as stated: a pass begun with a source path that is no directory
\* never gets to the loop or to a return, and leaves the three directories
\* (existence, entries, contents) as they were when it began.
C14_NoSourceNoIO ==
    (pc # "idle" /\ ~pre.isdir["source"]) =>
        /\ pc \in {"list", "failed"}
        /\ Snapshot = pre

-----------------------------------------------------------------------------
(* C15 *)

\* the three paths are existing directories
ValidPaths == \A d \in Dirs : isdir[d]

\* sync() was never called
NotInvoked == pc = "main" /\ budget = 1 /\ log = <<>>

\* what C15 says of the exit code and of a failed validation
ExitCodeRule ==
    /\ cli.code = 1 <=> (~ValidPaths \/ pc = "failed")
    /\ cli.code = 0 <=> ~(~ValidPaths \/ pc = "failed")
    /\ ~ValidPaths => (NotInvoked /\ Snapshot = pre)

\* C15, as stated: the process exits with code 1 exactly when one of the
\* three paths is no directory or sync() raised, and with code 0 otherwise;
\* when the validation fails sync() was never called and the directories
\* are as they were.
C15_ExitCodes == cli.pc = "exited" => ExitCodeRule

\* C15, amended: the same once the arguments have parsed and logging is set
\* up; a command line argparse rejects ends the process with code 2, and a
\* failure to set up logging ends it with code 1, in both cases before the
\* validation and without a call of sync().
C15_ExitCodesAfterSetup ==
    cli.pc = "exited" =>
        IF cli.error = "argparse" THEN cli.code = 2 /\ NotInvoked /\ Snapshot = pre
        ELSE IF cli.error = "logging" THEN cli.code = 1 /\ NotInvoked /\ Snapshot = pre
        ELSE ExitCodeRule

\* C15, witness: the process exited with code 1 because the backup path is
\* no directory, although the source path is one and holds an eligible file.
C15_Witness ==
    /\ cli.pc = "exited"
    /\ cli.code = 1
    /\ cli.error = "not valid directories"
    /\ isdir["source"]
    /\ ~isdir["backup"]
    /\ Eligible(source) # {}
    /\ NotInvoked

-----------------------------------------------------------------------------
(* C16 *)

\* a direct call for a source path that is missing or no regular file, or
\* for a backup path that exists and cannot be fingerprinted (a directory,
\* or a read that fails), has raised
RaisesOnBadPaths ==
    Called =>
        LET f == result.filename
        IN  /\ ~isfile(source, f) => result.raised
            /\ (exists(backup, f) /\ (~isfile(backup, f) \/ result.fault = "read"))
                    => result.raised

\* the iteration of a file whose backup path is a directory raises, unless
\* the recency filter skips the file before the comparison; an iteration in
\* which the comparison raises ends the pass and changes nothing
FailsOnBadBackup ==
    Step =>
        /\ (exists(backup, Head(files)) /\ ~isfile(backup, Head(files))
                /\ ~WindowSkips(Head(files)))
              => error' # ""
        /\ error' = "Error comparing files"
              => /\ pc' = "failed"
                 /\ backup' = backup
                 /\ versioning' = versioning
                 /\ log' = log

\* C16: should_sync returns no boolean but raises when the source path is
\* missing or no regular file (also when the backup path does not exist)
\* and when the backup path exists but cannot be fingerprinted; a pass of
\* sync() whose loop comes to compare such a file fails and leaves the backup
\* entry of that file as it was.
C16_ShouldSyncRaises == []RaisesOnBadPaths /\ [][FailsOnBadBackup]_vars

\* C16, witness: with dry_run off the pass has logged the step of one file
\* and then failed in the comparison of a file whose backup path is a
\* directory, which is still there.
C16_Witness ==
    /\ pc = "failed"
    /\ ~dry_run
    /\ error = "Error comparing files"
    /\ log # <<>>
    /\ exists(backup, Head(files))
    /\ backup[Head(files)].kind = "dir"
    /\ isfile(source, Head(files))

-----------------------------------------------------------------------------
(* C17 *)

\* g is the supersession the pass that has just returned completed
Latest(g) ==
    /\ g.filename \in DOMAIN pre.backup
    /\ g.data = pre.backup[g.filename].data
    /\ \E i \in DOMAIN log : log[i] = Event("Versioning", g.filename, g.name)

\* g and h are supersessions of one file in one clock second, of different
\* contents, h the earlier one
SameSecond(g, h) ==
    /\ g.filename = h.filename
    /\ g.time = h.time
    /\ g.data # h.data
    /\ Latest(g)

\* C17: when a file was superseded twice within one clock second, in passes
\* that all returned without raising, both steps gave the same versioned
\* name, the second move put no further entry into the versioning directory
\* but replaced the first: the name holds the content superseded second,
\* and the content superseded first is no longer under it.
C17_SameSecondOverwrites ==
    (clean /\ pc = "done") =>
        \A g, h \in history :
            SameSecond(g, h) =>
                /\ g.name = h.name
                /\ Holds(versioning, g.name, g.data)
                /\ ~Holds(versioning, g.name, h.data)
                /\ DOMAIN versioning = DOMAIN pre.versioning
                /\ Holds(pre.versioning, h.name, h.data)

\* C17, witness: two passes in one clock second, with a rewrite of the
\* source in between, have both superseded the backup of one file, and the
\* versioning directory holds a single entry.
C17_Witness ==
    /\ clean
    /\ pc = "done"
    /\ Cardinality(DOMAIN versioning) = 1
    /\ \E g, h \in history : SameSecond(g, h) /\ Holds(versioning, g.name, g.data)

-----------------------------------------------------------------------------
(* C18 *)

\* the clock has not moved since the start, when it read 0
ClockStill == now = 0

\* the entries of a directory, as name-entry pairs
Entries(dir) == {<<n, dir[n]>> : n \in DOMAIN dir}

\* the eligible files the recency filter lets through
Through == {f \in Eligible(source) : ~WindowSkips(f)}

\* what each file's own decision gives, whatever the order: the source entry
\* at the backup path of every file let through, the old backup of every
\* differing file under its versioned name, and one event per file
FinalBackup ==
    (Entries(pre.backup) \ {<<f, pre.backup[f]>> : f \in Through \cap DOMAIN pre.backup})
        \cup {<<f, source[f]>> : f \in Through}
FinalVersioning ==
    LET moved == {g \in Through : Differing(g)}
    IN  {e \in Entries(pre.versioning) : \A f \in moved : e[1] # VersionName(f, now)}
            \cup {<<VersionName(f, now), pre.backup[f]>> : f \in moved}
FinalEvent(f) ==
    IF f \notin DOMAIN pre.backup THEN Event("Copying new file", f, <<>>)
    ELSE IF Differing(f) THEN Event("Versioning", f, VersionName(f, now))
    ELSE Skipped(f)
FinalEvents == {FinalEvent(f) : f \in Through}

\* C18, as stated: with the clock fixed, after a pass that returned with
\* dry_run off, the backup and the versioning directory and the action taken
\* for each file are what the files' own decisions give, the same for every
\* order of the listing.
C18_OrderIndependent ==
    (Synced /\ ClockStill) =>
        /\ Entries(backup) = FinalBackup
        /\ Entries(versioning) = FinalVersioning
        /\ Range(log) = FinalEvents

-----------------------------------------------------------------------------
(* C19 *)

\* C19, as stated: in a pass with dry_run off the steps of two different
\* files never write the same path: their backup paths are their different
\* names in the backup directory, and the versioned names their Versioning
\* events give differ as well.
C19_DistinctPaths ==
    (~dry_run /\ pc # "idle") =>
        \A i, j \in DOMAIN log :
            (/\ log[i].filename # log[j].filename
             /\ log[i].kind = "Versioning"
             /\ log[j].kind = "Versioning")
                => log[i].versioned_name # log[j].versioned_name

-----------------------------------------------------------------------------
(* C20 *)

\* the files whose iteration is over: the eligible files the loop has left
\* behind
Processed ==
    IF pc \in {"loop", "moved", "done"}
          \/ (pc = "failed" /\ error \notin {"makedirs", "Error reading .txt files"})
    THEN Eligible(source) \ Range(files)
    ELSE {}

\* the log events of the file f
EventsOf(f) == {i \in DOMAIN log : log[i].filename = f}

\* the event e is the one of the path f took, and with dry_run off the
\* path's action was carried out
Matches(f, e) ==
    \/ /\ e = Event("Copying new file", f, <<>>)
       /\ f \notin DOMAIN pre.backup
       /\ dry_run \/ Holds(backup, f, source[f].data)
    \/ /\ e.kind = "Versioning"
       /\ IsVersionOf(e.versioned_name, f)
       /\ Differing(f)
       /\ dry_run \/ (Holds(backup, f, source[f].data)
                        /\ e.versioned_name \in DOMAIN versioning)
    \/ /\ e = Skipped(f)
       /\ Holds(pre.backup, f, source[f].data)

\* every file the loop has left behind took exactly one path: the recency
\* filter skipped it (no event, backup entry as it was), or it has exactly
\* one event, that of Copy, Version+Replace or Skip, with the matching
\* action; with dry_run on no path changes a backup entry
OnePath ==
    \A f \in Processed :
        /\ \/ EventsOf(f) = {} /\ WindowSkips(f) /\ BackupUntouched(f)
           \/ \E i \in DOMAIN log : EventsOf(f) = {i} /\ Matches(f, log[i])
        /\ dry_run => BackupUntouched(f)

\* sync() is running, and sync() has returned or raised
Running == pc \in {"list", "loop", "moved"}
Ended == pc \in {"done", "failed"}

\* C20: every eligible file takes exactly one path of the per-file state
\* machine, and every pass ends: it returns with every eligible file behind
\* it, or it raises.
C20_OnePathAndTermination ==
    /\ []OnePath
    /\ [](pc = "done" => Processed = Eligible(source))
    /\ Running ~> Ended

\* C20, witness: a pass with dry_run off has returned after it replaced the
\* backup of one file and skipped another as unchanged.
C20_Witness ==
    /\ Synced
    /\ \E f, g \in Processed :
        /\ \E i \in EventsOf(f) : log[i].kind = "Versioning"
        /\ \E j \in EventsOf(g) : log[j] = Skipped(g)

-----------------------------------------------------------------------------
(* C21 *)

\* C21: from the listing of the source on, the backup and the versioning
\* directory exist; and a pass in which the creation of one of them failed
\* has failed without listing a file, with the entries of both directories
\* as they were and without a log event.
C21_DirectoriesFirst ==
    /\ pc \in {"list", "loop", "moved", "done"}
            => (isdir["backup"] /\ isdir["versioning"])
    /\ (pc # "idle" /\ error = "makedirs")
            => /\ pc = "failed"
               /\ files = <<>>
               /\ log = <<>>
               /\ backup = pre.backup
               /\ versioning = pre.versioning

\* C21, witness: the backup directory was created, the creation of the
\* versioning directory failed and so did the pass, with an eligible file
\* waiting in the source directory.
C21_Witness ==
    /\ pc = "failed"
    /\ error = "makedirs"
    /\ ~pre.isdir["backup"]
    /\ isdir["backup"]
    /\ ~isdir["versioning"]
    /\ Eligible(source) # {}

-----------------------------------------------------------------------------
(* C22 *)

\* the pass that has just returned is the second of two consecutive passes
\* with dry_run off that both returned, with no recency filter and no
\* change of the source directory in between
SecondOfTwo == Synced /\ follows /\ clean /\ modified_within = <<>>

\* C22: the second of two such passes leaves the backup and the versioning
\* directory as the first left them and logs "Skipped (unchanged)", once,
\* for every eligible file and nothing else.
C22_SecondPassIdempotent ==
    SecondOfTwo =>
        /\ backup = pre.backup
        /\ versioning = pre.versioning
        /\ Range(log) = {Skipped(f) : f \in Eligible(source)}
        /\ Len(log) = Cardinality(Eligible(source))

\* C22, witness: the first pass replaced the backup of a file and put the
\* old one into the versioning directory, and the second pass has skipped
\* the file.
C22_Witness ==
    /\ SecondOfTwo
    /\ history # {}
    /\ versioning # Empty
    /\ log # <<>>
    /\ log[1].kind = "Skipped (unchanged)"

-----------------------------------------------------------------------------
(* C23 *)

\* the versioned name the Versioning event of the current file gave
CurrentVersion == log[Len(log)].versioned_name

\* between the move and the copy, and after a failure of either, the old
\* backup content of the current file is at its backup path or at its
\* versioned path; between the two it is at the versioned path
OldBackupSomewhere ==
    (pc = "moved" \/ (pc = "failed" /\ error = "Error during versioning")) =>
        LET f == Head(files)
            old == pre.backup[f].data
        IN  /\ Holds(backup, f, old) \/ Holds(versioning, CurrentVersion, old)
            /\ pc = "moved" => (f \notin DOMAIN backup
                                 /\ Holds(versioning, CurrentVersion, old))

\* data is the beginning of whole
Prefix(data, whole) ==
    Len(data) <= Len(whole) /\ SubSeq(whole, 1, Len(data)) = data

\* the copy after the move fails
CopyFails == pc = "moved" /\ pc' = "failed"

\* every entry the pass put into the versioning directory is the version
\* the Versioning event of a file other than f names
NoVersionFrom(f) ==
    \A v \in DOMAIN versioning :
        (v \notin DOMAIN pre.versioning \/ versioning[v] # pre.versioning[v]) =>
            \E j \in DOMAIN log :
                /\ log[j].kind = "Versioning"
                /\ log[j].versioned_name = v
                /\ log[j].filename # f

\* a pass that returned has copied every file it found without backup as a
\* new file, and created no version for it
AbsentBackupCopied ==
    Synced =>
        \A f \in Through \ DOMAIN pre.backup :
            /\ \E i \in DOMAIN log :
                   EventsOf(f) = {i} /\ log[i] = Event("Copying new file", f, <<>>)
            /\ Holds(backup, f, source[f].data)
            /\ NoVersionFrom(f)

\* C23, as stated: the old backup content is at the backup path or at the
\* versioned path in every intermediate state and after a failure; a copy
\* that fails after the move leaves the backup path absent; and a later
\* pass that returns copies the file as a new file, without a further
\* version.
C23_MoveThenCopy ==
    /\ []OldBackupSomewhere
    /\ [][CopyFails => Head(files) \notin DOMAIN backup']_vars
    /\ []AbsentBackupCopied

\* C23, amended: the same, except that a copy that fails after the move
\* leaves the backup path absent or holding what the copy wrote before it
\* failed, a beginning of the source content up to all of it; a later pass
\* that returns copies the file as a new file without a further version when
\* the backup path is absent, and in every case leaves the backup equal to
\* the source.
C23_MoveThenCopyMayLeavePart ==
    /\ []OldBackupSomewhere
    /\ [][CopyFails =>
            \/ Head(files) \notin DOMAIN backup'
            \/ /\ backup'[Head(files)].kind = "file"
               /\ Prefix(backup'[Head(files)].data, source[Head(files)].data)]_vars
    /\ []AbsentBackupCopied
    /\ [](Synced => \A f \in Through : Holds(backup, f, source[f].data))

\* C23, witness: an earlier pass moved the backup of a file to the
\* versioning directory and failed in the copy, leaving no backup; the
\* pass that has just returned copied the file and added no version.
C23_Witness ==
    /\ Synced
    /\ ~clean
    /\ \E f \in Eligible(source) \ DOMAIN pre.backup :
        /\ \E v \in DOMAIN pre.versioning : IsVersionOf(v, f)
        /\ Holds(backup, f, source[f].data)
        /\ versioning = pre.versioning

=============================================================================
